---- MODULE Spec2Model ----
(***************************************************************************)
(* Model of the postgres storage adapter (storage/postgres) and of the     *)
(* part of the database it talks to: the tables its statements target,     *)
(* their rows in heap order, and the SERIAL sequence behind the id column. *)
(* Text values that end up in the connection string or in a statement are  *)
(* sequences of one-character strings, so that formatting is real          *)
(* concatenation.                                                          *)
(***************************************************************************)
EXTENDS Integers, Sequences, FiniteSets, TLC

VARIABLES tables, adapters, ret, args, connVars, psqlInfo, pc

vars == <<tables, adapters, ret, args, connVars, psqlInfo, pc>>

-----------------------------------------------------------------------------
(* Bounds: rows ever inserted, adapters constructed, options per call *)

MaxInserts == 2

MaxAdapters == 2

MaxOpts == 2

-----------------------------------------------------------------------------
(* Text constants of the adapter *)

sslModeKey == <<"s", "s", "l", "m", "o", "d", "e">>

passwordKey == <<"p", "a", "s", "s", "w", "o", "r", "d">>

hostKey == <<"h", "o", "s", "t">>

portKey == <<"p", "o", "r", "t">>

userKey == <<"u", "s", "e", "r">>

dbNameKey == <<"d", "b", "n", "a", "m", "e">>

sslDisable == <<"d", "i", "s", "a", "b", "l", "e">>

Empty == <<>>

-----------------------------------------------------------------------------
(* Input domains. "b-d" is a database name that is no SQL identifier. *)

Hosts == {<<"h">>, Empty, <<"h", " ", "x">>}

Ports == {<<"5">>, <<"6">>}

Users == {<<"u">>, <<"v">>}

DbNames == {<<"d", "b">>, <<"b", "-", "d">>}

Passwords == {Empty, <<"p", "w">>, <<"p", " ", "w">>}

TableNameArgs == {Empty, <<"t", "2">>}

PgOptionFuncs ==
    [kind : {"WithPassword"}, arg : Passwords]
        \cup [kind : {"WithTableName"}, arg : TableNameArgs]

RECURSIVE SeqsUpTo(_, _)
SeqsUpTo(S, n) ==
    IF n = 0 THEN {<<>>}
    ELSE LET shorter == SeqsUpTo(S, n - 1)
         IN  shorter \cup {Append(s, x) : s \in {t \in shorter : Len(t) = n - 1}, x \in S}

PgOptsInputs == SeqsUpTo(PgOptionFuncs, MaxOpts)

OptPassword == [kind |-> "WithPassword", arg |-> <<"p", "w">>]

OptTable == [kind |-> "WithTableName", arg |-> <<"t", "2">>]

OptNoTable == [kind |-> "WithTableName", arg |-> Empty]

AdapterOptsInputs ==
    {<<>>, <<OptPassword>>, <<OptTable>>, <<OptNoTable>>,
     <<OptTable, OptNoTable>>, <<OptNoTable, OptTable>>, <<OptTable, OptPassword>>}

TestNumbers == <<[ID |-> 1, Number |-> "1234565454"], [ID |-> 2, Number |-> "4565434343"]>>

Numbers == {"1234565454", "4565434343"}

Ids == 1 .. MaxInserts

-----------------------------------------------------------------------------
(* Options and the connection string *)

WithPassword(password, options) == [options EXCEPT !.password = password]

WithTableName(tableName, options) == [options EXCEPT !.tableName = tableName]

PgOptionFunc(pgOpt, options) ==
    IF pgOpt.kind = "WithPassword" THEN WithPassword(pgOpt.arg, options)
    ELSE WithTableName(pgOpt.arg, options)

RECURSIVE applyOptFuncsBackFrom(_, _, _)
applyOptFuncsBackFrom(options, pgOpts, i) ==
    IF i < 1 THEN options
    ELSE applyOptFuncsBackFrom(PgOptionFunc(pgOpts[i], options), pgOpts, i - 1)

(* Faulty variant: the options applied last to first *)
applyOptFuncs_reversed(options, pgOpts) == applyOptFuncsBackFrom(options, pgOpts, Len(pgOpts))

RECURSIVE applyOptFuncsFrom(_, _, _)
applyOptFuncsFrom(options, pgOpts, i) ==
    IF i > Len(pgOpts) THEN options
    ELSE applyOptFuncsFrom(PgOptionFunc(pgOpts[i], options), pgOpts, i + 1)

applyOptFuncs(options, pgOpts) == applyOptFuncsFrom(options, pgOpts, 1)

KeyValue(key, value) == key \o <<"=">> \o value

(* Faulty variant: the password pair written whether or not a password is set *)
connString_alwaysPassword(options) ==
    KeyValue(hostKey, options.host) \o <<" ">>
        \o KeyValue(portKey, options.port) \o <<" ">>
        \o KeyValue(dbNameKey, options.dbName) \o <<" ">>
        \o KeyValue(userKey, options.userName) \o <<" ">>
        \o KeyValue(sslModeKey, options.sslMode) \o <<" ">>
        \o KeyValue(passwordKey, options.password)

connString(options) ==
    LET base == KeyValue(hostKey, options.host) \o <<" ">>
                  \o KeyValue(portKey, options.port) \o <<" ">>
                  \o KeyValue(dbNameKey, options.dbName) \o <<" ">>
                  \o KeyValue(userKey, options.userName) \o <<" ">>
                  \o KeyValue(sslModeKey, options.sslMode)
    IN  IF options.password # Empty
        THEN base \o <<" ">> \o KeyValue(passwordKey, options.password)
        ELSE base

applyOpts(options, pgOpts) == connString(applyOptFuncs(options, pgOpts))

NewPgOptions(host, port, user, dbName) ==
    [password |-> Empty, tableName |-> Empty, sslMode |-> sslDisable,
     host |-> host, port |-> port, userName |-> user, dbName |-> dbName]

(* Faulty variant: the table-name option ignored *)
adapterTableName_dbName(dbName, options) == dbName

adapterTableName(dbName, options) ==
    IF options.tableName # Empty THEN options.tableName ELSE dbName

-----------------------------------------------------------------------------
(* The database: statements of the adapter executed against the tables.    *)
(* The table name is formatted into each statement as it is, so a name that *)
(* is no identifier makes the statement a syntax error. A table keeps its   *)
(* rows in heap order, which is the order SELECT * (no ORDER BY) returns;   *)
(* where INSERT and UPDATE put a new row version is the store's choice.     *)

IdentChars == {"a", "b", "d", "t", "2", "_"}

ValidIdent(name) ==
    /\ name # Empty
    /\ \A i \in 1 .. Len(name) : name[i] \in IdentChars

TableNames == {adapterTableName(d, [tableName |-> t]) : d \in DbNames, t \in TableNameArgs}

NoTable == [exists |-> FALSE, rows |-> <<>>, serial |-> 0]

NewTable == [exists |-> TRUE, rows |-> <<>>, serial |-> 0]

StmtError(db, tableName) ==
    IF ~ValidIdent(tableName) THEN "syntax error"
    ELSE IF ~db[tableName].exists THEN "undefined table"
    ELSE "none"

(* Faulty variant: an existing table replaced by a fresh one *)
createTable_replace(db, tableName) ==
    IF ~ValidIdent(tableName) THEN [err |-> "syntax error", db |-> db]
    ELSE [err |-> "none", db |-> [db EXCEPT ![tableName] = NewTable]]

createTable(db, tableName) ==
    IF ~ValidIdent(tableName) THEN [err |-> "syntax error", db |-> db]
    ELSE IF db[tableName].exists THEN [err |-> "duplicate table", db |-> db]
    ELSE [err |-> "none", db |-> [db EXCEPT ![tableName] = NewTable]]

InsertAt(rows, pos, row) ==
    SubSeq(rows, 1, pos - 1) \o <<row>> \o SubSeq(rows, pos, Len(rows))

RemoveAt(rows, pos) ==
    SubSeq(rows, 1, pos - 1) \o SubSeq(rows, pos + 1, Len(rows))

RowIds(rows) == {rows[i].ID : i \in 1 .. Len(rows)}

RowSet(rows) == {rows[i] : i \in 1 .. Len(rows)}

RowPos(rows, id) == CHOOSE i \in 1 .. Len(rows) : rows[i].ID = id

Inserted(db) ==
    LET RECURSIVE Sum(_)
        Sum(S) == IF S = {} THEN 0
                  ELSE LET n == CHOOSE x \in S : TRUE IN db[n].serial + Sum(S \ {n})
    IN  Sum(DOMAIN db)

RECURSIVE deleteWhereId(_, _)
deleteWhereId(rows, id) ==
    IF rows = <<>> THEN <<>>
    ELSE IF Head(rows).ID = id THEN deleteWhereId(Tail(rows), id)
    ELSE <<Head(rows)>> \o deleteWhereId(Tail(rows), id)

RECURSIVE scanRows(_, _)
scanRows(rows, numbers) ==
    IF rows = <<>> THEN numbers
    ELSE scanRows(Tail(rows), Append(numbers, [ID |-> Head(rows).ID, Number |-> Head(rows).Number]))

-----------------------------------------------------------------------------
(* Results of the last call *)

NoArgs == [host |-> Empty, port |-> Empty, user |-> Empty, dbName |-> Empty, pgOpts |-> <<>>]

Result(op, a, open, table, err, id, numbers, rec, dbName, pgOpts) ==
    [op |-> op, a |-> a, open |-> open, table |-> table, err |-> err, id |-> id,
     numbers |-> numbers, rec |-> rec, dbName |-> dbName, pgOpts |-> pgOpts,
     createErr |-> "none"]

NoRec == [ID |-> 0, Number |-> ""]

NoResult == Result("none", 0, FALSE, Empty, "none", 0, <<>>, NoRec, Empty, <<>>)

IsOpen(a) == adapters[a].conn = "open"

-----------------------------------------------------------------------------
(* Initial state: an empty database, no adapter constructed *)

Init ==
    /\ tables = [n \in TableNames |-> NoTable]
    /\ adapters = <<>>
    /\ ret = NoResult
    /\ args = NoArgs
    /\ connVars = NewPgOptions(Empty, Empty, Empty, Empty)
    /\ psqlInfo = Empty
    /\ pc = "idle"

optVars == <<args, connVars, psqlInfo, pc>>

-----------------------------------------------------------------------------
(* NewAdapter: options, Open, Ping, table name, createTable (error dropped) *)

NewAdapterResult(db, ads, host, port, user, dbName, pgOpts, openOk, pingOk) ==
    LET options   == applyOptFuncs(NewPgOptions(host, port, user, dbName), pgOpts)
        tableName == adapterTableName(dbName, options)
        created   == createTable(db, tableName)
    IN  IF ~openOk
        THEN [err |-> "open failed", adapters |-> ads, db |-> db, table |-> Empty,
              createErr |-> "none"]
        ELSE IF ~pingOk
        THEN [err |-> "ping failed", adapters |-> ads, db |-> db, table |-> Empty,
              createErr |-> "none"]
        ELSE [err |-> "none",
              adapters |-> Append(ads, [tableName |-> tableName, conn |-> "open"]),
              db |-> created.db, table |-> tableName, createErr |-> created.err]

Idle == ret.op = "none"

NewAdapter(host, port, user, dbName, pgOpts, openOk, pingOk) ==
    /\ Idle
    /\ Len(adapters) < MaxAdapters
    /\ LET r == NewAdapterResult(tables, adapters, host, port, user, dbName, pgOpts, openOk, pingOk)
       IN  /\ adapters' = r.adapters
           /\ tables' = r.db
           /\ ret' = [Result("NewAdapter", IF r.err = "none" THEN Len(adapters) + 1 ELSE 0,
                             r.err = "none", r.table, r.err, 0, <<>>, NoRec, dbName, pgOpts)
                          EXCEPT !.createErr = r.createErr]
    /\ UNCHANGED optVars

(* adapter.conn.Close() *)
Close(a) ==
    /\ Idle
    /\ IsOpen(a)
    /\ adapters' = [adapters EXCEPT ![a].conn = "closed"]
    /\ ret' = Result("Close", a, TRUE, adapters[a].tableName, "none", 0, <<>>, NoRec, Empty, <<>>)
    /\ UNCHANGED <<tables, optVars>>

(* Faulty variant: the statement sent whatever the state of the connection *)
ConnError_ignoresClose(ad, db) == StmtError(db, ad.tableName)

ConnError(ad, db) ==
    IF ad.conn # "open" THEN "sql: database is closed" ELSE StmtError(db, ad.tableName)

CreatePhoneNumber(a, number) ==
    LET ad  == adapters[a]
        err == ConnError(ad, tables)
    IN  /\ Idle
        /\ err = "none" => Inserted(tables) < MaxInserts
        /\ IF err # "none"
           THEN /\ ret' = Result("CreatePhoneNumber", a, IsOpen(a), ad.tableName, err, 0, <<>>,
                                 [ID |-> 0, Number |-> number], Empty, <<>>)
                /\ UNCHANGED tables
           ELSE LET t  == tables[ad.tableName]
                    id == t.serial + 1
                IN  \E pos \in 1 .. Len(t.rows) + 1 :
                        /\ tables' = [tables EXCEPT ![ad.tableName] =
                                         [t EXCEPT !.serial = id,
                                                   !.rows = InsertAt(t.rows, pos, [ID |-> id, Number |-> number])]]
                        /\ ret' = Result("CreatePhoneNumber", a, TRUE, ad.tableName, "none", id, <<>>,
                                         [ID |-> id, Number |-> number], Empty, <<>>)
        /\ UNCHANGED <<adapters, optVars>>

(* Faulty variant: UPDATE without its WHERE clause *)
updateRows_all(rows, number, pos) ==
    [i \in 1 .. Len(rows) |-> [ID |-> rows[i].ID, Number |-> number.Number]]

updateRows(rows, number, pos) ==
    IF number.ID \in RowIds(rows)
    THEN InsertAt(RemoveAt(rows, RowPos(rows, number.ID)), pos,
                  [ID |-> number.ID, Number |-> number.Number])
    ELSE rows

UpdatePhoneNumber(a, number) ==
    LET ad  == adapters[a]
        err == ConnError(ad, tables)
    IN  /\ Idle
        /\ ret' = Result("UpdatePhoneNumber", a, IsOpen(a), ad.tableName, err, 0, <<>>, number, Empty, <<>>)
        /\ IF err # "none"
           THEN UNCHANGED tables
           ELSE LET t == tables[ad.tableName]
                IN  \E pos \in 1 .. Len(t.rows) + 1 :
                        /\ pos <= Len(t.rows) \/ number.ID \notin RowIds(t.rows)
                        /\ tables' = [tables EXCEPT ![ad.tableName].rows = updateRows(t.rows, number, pos)]
        /\ UNCHANGED <<adapters, optVars>>

(* Faulty variant: no rows reported as an error *)
GetPhoneNumbers_noRows(a) ==
    LET ad   == adapters[a]
        err  == ConnError(ad, tables)
        err2 == IF err = "none" /\ tables[ad.tableName].rows = <<>>
                THEN "sql: no rows in result set" ELSE err
    IN  /\ Idle
        /\ ret' = Result("GetPhoneNumbers", a, IsOpen(a), ad.tableName, err2, 0,
                         IF err2 # "none" THEN <<>> ELSE tables[ad.tableName].rows,
                         NoRec, Empty, <<>>)
        /\ UNCHANGED <<tables, adapters, optVars>>

GetPhoneNumbers(a) ==
    LET ad  == adapters[a]
        err == ConnError(ad, tables)
    IN  /\ Idle
        /\ ret' = Result("GetPhoneNumbers", a, IsOpen(a), ad.tableName, err, 0,
                         IF err # "none" THEN <<>> ELSE scanRows(tables[ad.tableName].rows, <<>>),
                         NoRec, Empty, <<>>)
        /\ UNCHANGED <<tables, adapters, optVars>>

RemovePhoneNumber(a, id) ==
    LET ad  == adapters[a]
        err == ConnError(ad, tables)
    IN  /\ Idle
        /\ ret' = Result("RemovePhoneNumber", a, IsOpen(a), ad.tableName, err, id, <<>>, NoRec, Empty, <<>>)
        /\ IF err # "none"
           THEN UNCHANGED tables
           ELSE tables' = [tables EXCEPT ![ad.tableName].rows = deleteWhereId(@, id)]
        /\ UNCHANGED <<adapters, optVars>>

(* insertNumbers: one INSERT per element, stopping at the first error *)
RECURSIVE insertAll(_, _)
insertAll(t, numbers) ==
    IF numbers = <<>> THEN {t}
    ELSE UNION {insertAll([t EXCEPT !.serial = t.serial + 1,
                                    !.rows = InsertAt(t.rows, pos,
                                                      [ID |-> t.serial + 1, Number |-> Head(numbers).Number])],
                          Tail(numbers)) : pos \in 1 .. Len(t.rows) + 1}

insertNumbers(a, numbers) ==
    LET ad  == adapters[a]
        err == IF numbers = <<>> THEN "none" ELSE ConnError(ad, tables)
    IN  /\ Idle
        /\ ret' = Result("insertNumbers", a, IsOpen(a), ad.tableName, err, 0, <<>>, NoRec, Empty, <<>>)
        /\ IF err # "none" \/ numbers = <<>>
           THEN UNCHANGED tables
           ELSE /\ Inserted(tables) + Len(numbers) <= MaxInserts
                /\ \E t \in insertAll(tables[ad.tableName], numbers) :
                       tables' = [tables EXCEPT ![ad.tableName] = t]
        /\ UNCHANGED <<adapters, optVars>>

(* The caller takes the result; calls are synchronous, one at a time *)
Return ==
    /\ ~Idle
    /\ ret' = NoResult
    /\ UNCHANGED <<tables, adapters, optVars>>

Next ==
    \/ \E host \in {<<"h">>}, port \in {<<"5">>}, user \in {<<"u">>}, dbName \in DbNames,
          pgOpts \in AdapterOptsInputs, openOk \in BOOLEAN, pingOk \in BOOLEAN :
          NewAdapter(host, port, user, dbName, pgOpts, openOk, pingOk)
    \/ \E a \in 1 .. Len(adapters) : Close(a)
    \/ \E a \in 1 .. Len(adapters), number \in Numbers : CreatePhoneNumber(a, number)
    \/ \E a \in 1 .. Len(adapters), id \in Ids, number \in Numbers :
          UpdatePhoneNumber(a, [ID |-> id, Number |-> number])
    \/ \E a \in 1 .. Len(adapters) : GetPhoneNumbers(a)
    \/ \E a \in 1 .. Len(adapters), id \in Ids : RemovePhoneNumber(a, id)
    \/ \E a \in 1 .. Len(adapters), k \in 0 .. Len(TestNumbers) :
          insertNumbers(a, SubSeq(TestNumbers, 1, k))
    \/ Return

Spec == Init /\ [][Next]_vars

-----------------------------------------------------------------------------
(* The option pipeline on its own: NewAdapter's first two statements, run   *)
(* on inputs drawn from the input domains                                   *)

ArgsInputs ==
    [host : Hosts, port : Ports, user : Users, dbName : DbNames, pgOpts : PgOptsInputs]

InitOpts ==
    /\ tables = [n \in TableNames |-> NoTable]
    /\ adapters = <<>>
    /\ ret = NoResult
    /\ args \in ArgsInputs
    /\ connVars = NewPgOptions(Empty, Empty, Empty, Empty)
    /\ psqlInfo = Empty
    /\ pc = "start"

BuildConnInfo ==
    /\ pc = "start"
    /\ connVars' = applyOptFuncs(NewPgOptions(args.host, args.port, args.user, args.dbName), args.pgOpts)
    /\ psqlInfo' = applyOpts(NewPgOptions(args.host, args.port, args.user, args.dbName), args.pgOpts)
    /\ pc' = "built"
    /\ UNCHANGED <<tables, adapters, ret, args>>

NextOpts == BuildConnInfo

SpecOpts == InitOpts /\ [][NextOpts]_vars

-----------------------------------------------------------------------------
(* Vocabulary of the properties *)

CrudOps == {"CreatePhoneNumber", "GetPhoneNumbers", "UpdatePhoneNumber", "RemovePhoneNumber"}

(* A step in which operation op is called and returns *)
Calls(op) == Idle /\ ret'.op = op

RowsOf(db, tableName) == db[tableName].rows

IdOrder(rows) == [i \in 1 .. Len(rows) |-> rows[i].ID]

RECURSIVE IdsInOrderExcept(_, _)
IdsInOrderExcept(rows, id) ==
    IF rows = <<>> THEN <<>>
    ELSE IF Head(rows).ID = id THEN IdsInOrderExcept(Tail(rows), id)
    ELSE <<Head(rows).ID>> \o IdsInOrderExcept(Tail(rows), id)

OptionIndexes(kind, pgOpts) == {i \in 1 .. Len(pgOpts) : pgOpts[i].kind = kind}

Supplied(kind, pgOpts) == OptionIndexes(kind, pgOpts) # {}

LastArg(kind, pgOpts, default) ==
    IF ~Supplied(kind, pgOpts) THEN default
    ELSE LET S == OptionIndexes(kind, pgOpts)
             last == CHOOSE i \in S : \A j \in S : j <= i
         IN  pgOpts[last].arg

Chars(s) == {s[i] : i \in 1 .. Len(s)}

FirstIndex(s, c) == CHOOSE i \in 1 .. Len(s) : s[i] = c /\ \A j \in 1 .. i - 1 : s[j] # c

RECURSIVE Fields(_)
Fields(s) ==
    IF " " \notin Chars(s) THEN <<s>>
    ELSE LET i == FirstIndex(s, " ")
         IN  <<SubSeq(s, 1, i - 1)>> \o Fields(SubSeq(s, i + 1, Len(s)))

IsPairFor(field, key) ==
    /\ "=" \in Chars(field)
    /\ SubSeq(field, 1, FirstIndex(field, "=") - 1) = key

PairCount(s, key) ==
    LET fs == Fields(s) IN Cardinality({i \in 1 .. Len(fs) : IsPairFor(fs[i], key)})

HasPair(s, key, value) ==
    LET fs == Fields(s) IN \E i \in 1 .. Len(fs) : fs[i] = KeyValue(key, value)

RequiredKeys == {hostKey, portKey, dbNameKey, userKey, sslModeKey}

NoSpace(s) == " " \notin Chars(s)

-----------------------------------------------------------------------------
(* Steps the properties speak of *)

CreateStep ==
    (Calls("CreatePhoneNumber") /\ adapters[ret'.a].conn = "open") =>
        /\ ret'.err = "none"
        /\ ret'.id \notin RowIds(RowsOf(tables, ret'.table))
        /\ ret'.id > tables[ret'.table].serial
        /\ [ID |-> ret'.id, Number |-> ret'.rec.Number] \in RowSet(RowsOf(tables', ret'.table))
        /\ RowSet(RowsOf(tables', ret'.table)) =
              RowSet(RowsOf(tables, ret'.table)) \cup {[ID |-> ret'.id, Number |-> ret'.rec.Number]}
        /\ \A n \in TableNames \ {ret'.table} : tables'[n] = tables[n]

UpdatesExisting ==
    /\ Calls("UpdatePhoneNumber")
    /\ ret'.err = "none"
    /\ ret'.rec.ID \in RowIds(RowsOf(tables, ret'.table))

UpdateFrame ==
    LET before == RowsOf(tables, ret'.table)
        after  == RowsOf(tables', ret'.table)
    IN  /\ RowIds(after) = RowIds(before)
        /\ Len(after) = Len(before)
        /\ \A r \in RowSet(before) : r.ID # ret'.rec.ID => r \in RowSet(after)
        /\ [ID |-> ret'.rec.ID, Number |-> ret'.rec.Number] \in RowSet(after)
        /\ \A n \in TableNames \ {ret'.table} : tables'[n] = tables[n]

UpdateKeepsIdOrder ==
    IdOrder(RowsOf(tables', ret'.table)) = IdOrder(RowsOf(tables, ret'.table))

RemoveStep ==
    (Calls("RemovePhoneNumber") /\ adapters[ret'.a].conn = "open") =>
        LET before == RowsOf(tables, ret'.table)
            after  == RowsOf(tables', ret'.table)
        IN  /\ ret'.err = "none"
            /\ ret'.id \notin RowIds(after)
            /\ RowSet(after) = {r \in RowSet(before) : r.ID # ret'.id}
            /\ IdOrder(after) = IdsInOrderExcept(before, ret'.id)
            /\ ret'.id \notin RowIds(before) => tables' = tables
            /\ \A n \in TableNames \ {ret'.table} : tables'[n] = tables[n]

ClosedStep ==
    /\ \A a \in 1 .. Len(adapters) :
          adapters[a].conn = "closed" =>
              /\ a \in 1 .. Len(adapters')
              /\ adapters'[a].conn = "closed"
    /\ \A op \in CrudOps :
          (Calls(op) /\ adapters[ret'.a].conn = "closed") =>
              /\ ret'.err = "sql: database is closed"
              /\ ~ret'.open
              /\ tables' = tables

OneTableStep(expected) ==
    /\ \A a \in 1 .. Len(adapters) :
          a \in 1 .. Len(adapters') /\ adapters'[a].tableName = adapters[a].tableName
    /\ (Calls("NewAdapter") /\ ret'.err = "none") =>
          /\ adapters'[ret'.a].tableName = expected
          /\ ret'.table = expected
          /\ \A n \in TableNames \ {expected} : tables'[n] = tables[n]
    /\ \A op \in CrudOps :
          Calls(op) =>
              /\ ret'.table = adapters[ret'.a].tableName
              /\ \A n \in TableNames \ {adapters[ret'.a].tableName} : tables'[n] = tables[n]
    /\ (Calls("CreatePhoneNumber") /\ ret'.err = "none") =>
          ret'.rec \in RowSet(RowsOf(tables', adapters[ret'.a].tableName))
    /\ (Calls("GetPhoneNumbers") /\ ret'.err = "none") =>
          ret'.numbers = RowsOf(tables, adapters[ret'.a].tableName)

TableNameAsSupplied(dbName, pgOpts) == LastArg("WithTableName", pgOpts, dbName)

TableNameIfNonEmpty(dbName, pgOpts) ==
    IF LastArg("WithTableName", pgOpts, Empty) # Empty
    THEN LastArg("WithTableName", pgOpts, Empty)
    ELSE dbName

SharedTableStep ==
    /\ Calls("NewAdapter") =>
          \A n \in TableNames : tables[n].exists => tables'[n] = tables[n]
    /\ Calls("Close") =>
          /\ tables' = tables
          /\ \A b \in 1 .. Len(adapters) : b # ret'.a => adapters'[b] = adapters[b]
    /\ \A op \in CrudOps :
          (Calls(op) /\ adapters[ret'.a].conn = "open" /\ tables[adapters[ret'.a].tableName].exists) =>
              ret'.err = "none"
    /\ (Calls("GetPhoneNumbers") /\ ret'.err = "none") =>
          \A b \in 1 .. Len(adapters) :
              adapters[b].tableName = adapters[ret'.a].tableName =>
                  RowSet(ret'.numbers) = RowSet(RowsOf(tables, adapters[b].tableName))

-----------------------------------------------------------------------------
(* C1: with an open connection CreatePhoneNumber(v) succeeds and returns an *)
(* identifier no record used before; the record {id, v} is then among the   *)
(* listed records, and the records that existed before are still there      *)
(* unchanged.                                                               *)
C1_CreateSucceedsFresh == [][CreateStep]_vars

-----------------------------------------------------------------------------
(* C2 as stated: UpdatePhoneNumber({id, v}) on an existing record changes   *)
(* only that record's number: the same identifiers in the same relative     *)
(* order, every other record unchanged, the updated record still under id.  *)
C2_UpdateKeepsOrder == [][UpdatesExisting => UpdateFrame /\ UpdateKeepsIdOrder]_vars

(* C2 amended: UpdatePhoneNumber({id, v}) on an existing record leaves the  *)
(* same set of identifiers, every record with another identifier unchanged, *)
(* and the updated record under id with number v; the order in which the    *)
(* records are listed is the store's and may change.                        *)
C2_UpdateChangesOnlyNumber == [][UpdatesExisting => UpdateFrame]_vars

C2_Witness ==
    /\ ret.op = "UpdatePhoneNumber"
    /\ ret.err = "none"
    /\ ret.rec \in RowSet(RowsOf(tables, ret.table))
    /\ \E r \in RowSet(RowsOf(tables, ret.table)) : r.ID # ret.rec.ID /\ r.Number # ret.rec.Number

-----------------------------------------------------------------------------
(* C3: RemovePhoneNumber(id) on an open connection returns no error whether *)
(* or not the record exists; afterwards no record has that identifier, the  *)
(* other records are unchanged, and removing an absent identifier changes   *)
(* nothing.                                                                 *)
C3_RemoveNeverFails == [][RemoveStep]_vars

-----------------------------------------------------------------------------
(* C4: once an adapter's connection is closed, every later Create, Get,     *)
(* Update and Remove on it returns the connection error and leaves the      *)
(* stored records unchanged, and nothing reopens the connection.            *)
C4_ClosedFails == [][ClosedStep]_vars

C4_Witness ==
    /\ ret.op = "RemovePhoneNumber"
    /\ adapters[ret.a].conn = "closed"
    /\ ret.err = "sql: database is closed"
    /\ ret.id \in RowIds(RowsOf(tables, ret.table))

-----------------------------------------------------------------------------
(* C5: during NewAdapter only "table already exists" is suppressed: a failed *)
(* Open, a failed Ping, or a table-creation failure of any other kind makes  *)
(* NewAdapter return an error and no adapter; with the table already there   *)
(* it returns an adapter and a nil error.                                    *)
C5_OnlyTableExistsSuppressed ==
    ret.op = "NewAdapter" =>
        /\ ret.createErr \notin {"none", "duplicate table"} => ret.err # "none" /\ ret.a = 0
        /\ ret.createErr = "duplicate table" => ret.err = "none" /\ ret.a > 0
        /\ ret.err \in {"open failed", "ping failed"} => ret.a = 0

-----------------------------------------------------------------------------
(* C6: options are applied in the order given to one accumulator: each      *)
(* option field ends as the value of the last option that sets it, and the  *)
(* fields no option sets keep their initial value.                          *)
C6_LastOptionWins ==
    pc = "built" =>
        /\ connVars.password = LastArg("WithPassword", args.pgOpts, Empty)
        /\ connVars.tableName = LastArg("WithTableName", args.pgOpts, Empty)
        /\ connVars.host = args.host
        /\ connVars.port = args.port
        /\ connVars.userName = args.user
        /\ connVars.dbName = args.dbName
        /\ connVars.sslMode = sslDisable

C6_Witness ==
    /\ pc = "built"
    /\ \E i, j \in 1 .. Len(args.pgOpts) :
          /\ i < j
          /\ args.pgOpts[i].kind = "WithPassword"
          /\ args.pgOpts[j].kind = "WithPassword"
          /\ args.pgOpts[i].arg # args.pgOpts[j].arg
          /\ connVars.password = args.pgOpts[j].arg

-----------------------------------------------------------------------------
-----------------------------------------------------------------------------
(* C8 as stated: the table NewAdapter creates and the four operations of    *)
(* the returned adapter target is the table-name option's name when one is  *)
(* supplied and the database name when it is omitted, the same name for     *)
(* table creation and for every later insert, select, update and delete.    *)
C8_TableNameWhenSupplied ==
    [][OneTableStep(TableNameAsSupplied(ret'.dbName, ret'.pgOpts))]_vars

(* C8 amended: the name is the value of the last table-name option when     *)
(* that value is non-empty, and the database name otherwise (no table-name  *)
(* option, or an empty value); the same name for table creation and for     *)
(* every later insert, select, update and delete of that adapter.           *)
C8_TableNameWhenNonEmpty ==
    [][OneTableStep(TableNameIfNonEmpty(ret'.dbName, ret'.pgOpts))]_vars

C8_Witness ==
    /\ ret.op = "CreatePhoneNumber"
    /\ ret.err = "none"
    /\ ret.table = <<"t", "2">>
    /\ ret.rec \in RowSet(RowsOf(tables, <<"t", "2">>))
    /\ \E a \in 1 .. Len(adapters) : adapters[a].tableName = <<"d", "b">>

-----------------------------------------------------------------------------
(* C9: GetPhoneNumbers on an open connection against a table that holds no  *)
(* records, freshly created or emptied, returns an empty sequence and no    *)
(* error.                                                                   *)
C9_EmptyTableEmptyList ==
    ( /\ ret.op = "GetPhoneNumbers"
      /\ ret.open
      /\ tables[ret.table].exists
      /\ RowsOf(tables, ret.table) = <<>> ) =>
        /\ ret.err = "none"
        /\ ret.numbers = <<>>

C9_Witness ==
    /\ ret.op = "GetPhoneNumbers"
    /\ ret.open
    /\ tables[ret.table].exists
    /\ tables[ret.table].serial > 0
    /\ RowsOf(tables, ret.table) = <<>>
    /\ ret.numbers = <<>>

-----------------------------------------------------------------------------
(* C10: NewAdapter against a table that already exists leaves its records   *)
(* as they are; every open adapter on a table lists the records that the    *)
(* creates, updates and deletes of all adapters left in it, and closing one *)
(* adapter's connection does not affect calls through another.              *)
C10_AdaptersShareTable == [][SharedTableStep]_vars

C10_Witness ==
    /\ ret.op = "GetPhoneNumbers"
    /\ ret.err = "none"
    /\ Len(ret.numbers) = 2
    /\ \E b \in 1 .. Len(adapters) :
          /\ b < ret.a
          /\ adapters[b].tableName = ret.table
          /\ adapters[b].conn = "closed"

====
